---- MODULE Spec2Model ----
(***************************************************************************)
(* Distance Vector routing simulation (DistanceVector.py).                 *)
(*                                                                         *)
(* The program reads a node list, an initial edge list and an update list, *)
(* initialises per-router distance and routing tables from the direct      *)
(* links, runs synchronous relaxation sweeps until a sweep flags no        *)
(* change, applies the update batch once to the existing tables, and       *)
(* sweeps again until no change is flagged.                                *)
(*                                                                         *)
(* A Python dict is modelled as a sequence of <<key, value>> pairs in      *)
(* insertion order, because the sweep iterates graph[node] in that order   *)
(* and the first neighbour reaching the minimum becomes the next hop.      *)
(* float('inf') is the sentinel INF, absorbing under Plus and larger than  *)
(* every finite cost the bounded runs can produce.                         *)
(***************************************************************************)
EXTENDS Integers, Sequences, FiniteSets, TLC

\* ---------------------------------------------------------------- bounds
MaxCost == 2
MaxUpdates == 1
MaxSteps == 8

\* ------------------------------------------------------------- constants
INF == 999999
NONE == "none"
NodeList == <<"A", "B", "C">>
LinkPairs == {<<"A", "B">>, <<"A", "C">>, <<"B", "C">>}
Alphabet == <<"A", "B", "C", "D">>

VARIABLES
    nodes,            \* list of router labels, in input order
    edges,            \* initial edge lines  <<src, dest, cost>>
    updates,          \* update lines        <<src, dest, cost>>
    graph,            \* graph[node] = dict neighbour -> cost (insertion order)
    distance_tables,  \* distance_tables[node][neighbour][dest]
    routing_tables,   \* routing_tables[node][dest] = next hop or NONE
    step,             \* the printed round number
    converged,        \* the loop flag
    updates_applied,
    pc,               \* position in main / distance_vector
    dt_out,           \* last printed distance table snapshot
    rt_out            \* sequence of printed routing tables

vars == <<nodes, edges, updates, graph, distance_tables, routing_tables,
          step, converged, updates_applied, pc, dt_out, rt_out>>

\* --------------------------------------------------------------- helpers
SetOf(s) == {s[i] : i \in 1..Len(s)}

\* Python min() over a non-empty collection of costs.
MinOf(S) == CHOOSE x \in S : \A y \in S : x <= y

\* Addition of costs where float('inf') is absorbing.
Plus(a, b) == IF a = INF \/ b = INF THEN INF ELSE a + b

\* sorted(nodes) for single-letter labels.
Sorted(ns) == SelectSeq(Alphabet, LAMBDA x : x \in SetOf(ns))

\* ---------------------------------------------------- dict / graph access
DictHas(d, k) == \E i \in 1..Len(d) : d[i][1] = k

DictGet(d, k, default) ==
    LET hits == {i \in 1..Len(d) : d[i][1] = k}
    IN  IF hits = {} THEN default ELSE d[CHOOSE i \in hits : TRUE][2]

\* d[k] = v : an existing key keeps its position, a new key is appended.
DictSet(d, k, v) ==
    IF DictHas(d, k)
    THEN [i \in 1..Len(d) |-> IF d[i][1] = k THEN <<k, v>> ELSE d[i]]
    ELSE Append(d, <<k, v>>)

\* del d[k] when present.
DictDel(d, k) == SelectSeq(d, LAMBDA e : e[1] # k)

Keys(d) == [i \in 1..Len(d) |-> d[i][1]]

InGraph(g, a, b) == DictHas(g[a], b)

GraphCost(g, a, b) == DictGet(g[a], b, INF)

\* graph[a][b] = c ; graph[b][a] = c
SetLink(g, a, b, c) ==
    LET g1 == [g EXCEPT ![a] = DictSet(@, b, c)]
    IN  [g1 EXCEPT ![b] = DictSet(@, a, c)]

\* del graph[a][b] ; del graph[b][a]  (each only if present)
DelLink(g, a, b) ==
    LET g1 == [g EXCEPT ![a] = DictDel(@, b)]
    IN  [g1 EXCEPT ![b] = DictDel(@, a)]

EmptyGraph(ns) == [n \in SetOf(ns) |-> <<>>]

\* "not graph": no key was ever created in the defaultdict.
GraphIsEmpty(g) == \A n \in DOMAIN g : g[n] = <<>>

\* ---------------------------------------------------------- read_topology
RECURSIVE read_topology(_, _)
read_topology(g, es) ==
    IF es = <<>> THEN g
    ELSE LET e == Head(es)
         IN  read_topology(IF e[3] # -1 THEN SetLink(g, e[1], e[2], e[3]) ELSE g,
                           Tail(es))

\* ------------------------------------------------------ initialise_tables
\* Variant: the router's own row is not filled from its direct links.
initialise_distance_NoOwnRow(ns, g) ==
    [node \in SetOf(ns) |->
        [neighbour \in SetOf(ns) |->
            [dest \in SetOf(ns) \ {node} |->
                IF neighbour # node /\ dest = neighbour /\ InGraph(g, node, neighbour)
                THEN GraphCost(g, node, neighbour) ELSE INF]]]

initialise_distance(ns, g) ==
    [node \in SetOf(ns) |->
        [neighbour \in SetOf(ns) |->
            [dest \in SetOf(ns) \ {node} |->
                IF neighbour = node
                THEN (IF InGraph(g, node, dest) THEN GraphCost(g, node, dest) ELSE INF)
                ELSE (IF dest = neighbour /\ InGraph(g, node, neighbour)
                      THEN GraphCost(g, node, neighbour) ELSE INF)]]]

initialise_routing(ns, g) ==
    [node \in SetOf(ns) |->
        [dest \in SetOf(ns) \ {node} |->
            IF InGraph(g, node, dest) THEN dest ELSE NONE]]

\* ---------------------------------------------------------- the reporters
\* Cell of row `neighbour`, column `dest` in the table printed for `node`.
print_distance_tables(t, dt, ns) ==
    [t |-> t,
     tables |-> [node \in SetOf(ns) |->
                   [neighbour \in SetOf(ns) \ {node} |->
                      [dest \in SetOf(ns) \ {node} |->
                          dt[node][dest][neighbour]]]]]

RoutingLine(rt, dt, node, dest) ==
    LET next_hop == rt[node][dest]
        min_cost == IF next_hop # NONE
                    THEN MinOf({dt[node][nb][dest] : nb \in DOMAIN dt[node]})
                    ELSE INF
    IN  <<dest, next_hop, min_cost>>

RoutingLinePrinted(rt, dt, node, dest) ==
    /\ dest # node
    /\ RoutingLine(rt, dt, node, dest)[3] # INF
    /\ rt[node][dest] # NONE

print_routing_tables(rt, dt, ns) ==
    [node \in SetOf(ns) |->
        LET dests == SelectSeq(Sorted(ns),
                               LAMBDA d : RoutingLinePrinted(rt, dt, node, d))
        IN  [i \in 1..Len(dests) |-> RoutingLine(rt, dt, node, dests[i])]]

\* ------------------------------------------------- one relaxation sweep
\* k's advertised estimate: minimum over k's rows other than its own.
Best(dt, k, d, ns) == MinOf({dt[k][n][d] : n \in SetOf(ns) \ {k}})

\* Variant: the multi-hop candidate forgets the cost of the first link.
ViaCost_NoLink(g, dt, ns, node, neighbour, dest) ==
    IF neighbour = dest
    THEN GraphCost(g, node, neighbour)
    ELSE Best(dt, neighbour, dest, ns)

\* Variant: the multi-hop candidate forgets the neighbour's own estimate.
ViaCost_LinkOnly(g, dt, ns, node, neighbour, dest) ==
    GraphCost(g, node, neighbour)

ViaCost(g, dt, ns, node, neighbour, dest) ==
    IF neighbour = dest
    THEN GraphCost(g, node, neighbour)
    ELSE Plus(GraphCost(g, node, neighbour), Best(dt, neighbour, dest, ns))

\* The running <<min_cost, next_hop>> over graph[node] in insertion order.
RECURSIVE SelectFrom(_, _, _, _, _, _, _)
SelectFrom(g, dt, ns, node, dest, i, acc) ==
    IF i > Len(g[node]) THEN acc
    ELSE LET neighbour == g[node][i][1]
             cost == ViaCost(g, dt, ns, node, neighbour, dest)
         IN  SelectFrom(g, dt, ns, node, dest, i + 1,
                        IF neighbour # node /\ cost < acc[1]
                        THEN <<cost, neighbour>> ELSE acc)

Selection(g, dt, ns, node, dest) ==
    SelectFrom(g, dt, ns, node, dest, 1,
               IF InGraph(g, node, dest)
               THEN <<GraphCost(g, node, dest), dest>>
               ELSE <<INF, NONE>>)

\* Variant: the previous estimate is read from the router's own row only.
OldCost_OwnRow(dt, node, dest) == dt[node][node][dest]

OldCost(dt, node, dest) == MinOf({dt[node][n][dest] : n \in DOMAIN dt[node]})

Changed(g, dt, rt, ns, node, dest) ==
    LET s == Selection(g, dt, ns, node, dest)
    IN  /\ s[1] # INF
        /\ (s[1] # OldCost(dt, node, dest) \/ s[2] # rt[node][dest])

SweepDistances(g, dt, ns) ==
    [node \in SetOf(ns) |->
        [neighbour \in SetOf(ns) |->
            [dest \in SetOf(ns) \ {node} |->
                IF neighbour # node /\ InGraph(g, node, neighbour)
                THEN ViaCost(g, dt, ns, node, neighbour, dest)
                ELSE dt[node][neighbour][dest]]]]

SweepRouting(g, dt, rt, ns) ==
    [node \in SetOf(ns) |->
        [dest \in SetOf(ns) \ {node} |->
            LET s == Selection(g, dt, ns, node, dest)
            IN  IF s[1] # INF
                   /\ (s[1] # OldCost(dt, node, dest) \/ s[2] # rt[node][dest])
                THEN s[2]
                ELSE rt[node][dest]]]

\* Variant: the flag is reset for every router, so only the last one counts.
SweepConverged_LastNode(g, dt, rt, ns) ==
    \A dest \in SetOf(ns) \ {ns[Len(ns)]} :
        ~Changed(g, dt, rt, ns, ns[Len(ns)], dest)

SweepConverged(g, dt, rt, ns) ==
    \A node \in SetOf(ns) : \A dest \in SetOf(ns) \ {node} :
        ~Changed(g, dt, rt, ns, node, dest)

\* ---------------------------------------------------------- apply_updates
\* apply_updates (lines 41-54): the batch applied to the graph alone, the
\* distance tables left as they are.  Neither main nor distance_vector calls
\* it (line 259 calls update_distance_tables), so no step of a run takes it.
RECURSIVE apply_updates(_, _)
apply_updates(g, ups) ==
    IF ups = <<>> THEN g
    ELSE LET src == Head(ups)[1]
             dest == Head(ups)[2]
             cost == Head(ups)[3]
         IN  apply_updates(IF cost = -1
                           THEN DelLink(g, src, dest)
                           ELSE SetLink(g, src, dest, cost),
                           Tail(ups))

\* ------------------------------------------------ update_distance_tables
\* removed_links: the pre-update cost of every link the batch deletes.
RECURSIVE removed_links(_, _, _)
removed_links(g, ups, acc) ==
    IF ups = <<>> THEN acc
    ELSE LET u == Head(ups)
             src == u[1]
             dest == u[2]
         IN  removed_links(g, Tail(ups),
                 IF u[3] = -1 /\ InGraph(g, src, dest)
                 THEN DictSet(DictSet(acc, <<src, dest>>, GraphCost(g, src, dest)),
                              <<dest, src>>, GraphCost(g, dest, src))
                 ELSE acc)

\* The cost a multi-hop entry of node's row `neighbour` would have had if it
\* had been built over the removed link.
ExpectedCost(dt, removed, ns, node, neighbour, d) ==
    LET link_cost == DictGet(removed, <<node, neighbour>>, INF)
        min_neighbour_cost ==
            MinOf({dt[neighbour][n][d] : n \in SetOf(ns) \ {node}})
    IN  IF min_neighbour_cost # INF
        THEN Plus(link_cost, min_neighbour_cost)
        ELSE INF

\* Lines 76-90 for one endpoint `node` of a removed link to `neighbour`.
Invalidate(dt, removed, ns, node, neighbour) ==
    IF neighbour = node THEN dt
    ELSE [dt EXCEPT ![node][neighbour] =
            [d \in DOMAIN @ |->
                IF d = neighbour THEN INF
                ELSE IF @[d] = ExpectedCost(dt, removed, ns, node, neighbour, d)
                     THEN INF ELSE @[d]]]

\* Variant: a cost edit rewrites the table entries but not the graph.
ApplyEdit_TablesOnly(g, dt, removed, ns, u) ==
    LET src == u[1]
        dest == u[2]
        cost == u[3]
    IN  IF cost = -1
        THEN LET dt1 == Invalidate(dt, removed, ns, src, dest)
             IN  [g |-> DelLink(g, src, dest),
                  dt |-> Invalidate(dt1, removed, ns, dest, src)]
        ELSE [g |-> g,
              dt |-> [dt EXCEPT ![src][dest][dest] = cost,
                                ![dest][src][src] = cost,
                                ![src][src][dest] = cost,
                                ![dest][dest][src] = cost]]

\* One edit of the batch applied to <<graph, distance_tables>>.
ApplyEdit(g, dt, removed, ns, u) ==
    LET src == u[1]
        dest == u[2]
        cost == u[3]
    IN  IF cost = -1
        THEN LET dt1 == Invalidate(dt, removed, ns, src, dest)
             IN  [g |-> DelLink(g, src, dest),
                  dt |-> Invalidate(dt1, removed, ns, dest, src)]
        ELSE [g |-> SetLink(g, src, dest, cost),
              dt |-> [dt EXCEPT ![src][dest][dest] = cost,
                                ![dest][src][src] = cost,
                                ![src][src][dest] = cost,
                                ![dest][dest][src] = cost]]

RECURSIVE ApplyEdits(_, _, _, _, _)
\* Variant: the batch is applied from its last line to its first.
ApplyEdits_LastFirst(g, dt, removed, ns, ups) ==
    IF ups = <<>> THEN [g |-> g, dt |-> dt]
    ELSE LET r == ApplyEdit(g, dt, removed, ns, ups[Len(ups)])
         IN  ApplyEdits(r.g, r.dt, removed, ns, SubSeq(ups, 1, Len(ups) - 1))

ApplyEdits(g, dt, removed, ns, ups) ==
    IF ups = <<>> THEN [g |-> g, dt |-> dt]
    ELSE LET r == ApplyEdit(g, dt, removed, ns, Head(ups))
         IN  ApplyEdits(r.g, r.dt, removed, ns, Tail(ups))

\* Lines 109-122 for one (node, neighbour, dest), reading the table in place.
RecomputeEntry(g, dt, ns, node, neighbour, dest) ==
    IF InGraph(g, node, neighbour)
    THEN LET direct == DictGet(g[neighbour], dest, INF)
             neighbour_cost ==
                 IF direct = INF
                 THEN MinOf({dt[neighbour][n][dest] : n \in SetOf(ns) \ {node}})
                 ELSE direct
         IN  Plus(GraphCost(g, node, neighbour), neighbour_cost)
    ELSE INF

\* Lines 103-122: the triple loop in list order, one write at a time.
RECURSIVE Recompute(_, _, _, _)
Recompute(g, dt, ns, idx) ==
    LET N == Len(ns)
    IN  IF idx >= N * N * N THEN dt
        ELSE LET node == ns[(idx \div (N * N)) + 1]
                 neighbour == ns[((idx \div N) % N) + 1]
                 dest == ns[(idx % N) + 1]
             IN  Recompute(g,
                     IF neighbour # node /\ dest # node /\ dest # neighbour
                     THEN [dt EXCEPT ![node][neighbour][dest] =
                              RecomputeEntry(g, dt, ns, node, neighbour, dest)]
                     ELSE dt,
                     ns, idx + 1)

update_distance_tables(g, ns, ups, dt) ==
    LET removed == removed_links(g, ups, <<>>)
        r == ApplyEdits(g, dt, removed, ns, ups)
    IN  [g |-> r.g, dt |-> Recompute(r.g, r.dt, ns, 0)]

\* ----------------------------------------------------------------- inputs
InitialEdits == {<<p[1], p[2], c>> : p \in LinkPairs, c \in 1..MaxCost}

UpdateEdits == {<<p[1], p[2], c>> : p \in LinkPairs, c \in {-1} \cup (1..MaxCost)}

\* Initial edge lists name each link at most once, in any order.
EdgeLists ==
    {s \in UNION {[1..k -> InitialEdits] : k \in 0..Cardinality(LinkPairs)} :
        \A i, j \in 1..Len(s) : i # j => <<s[i][1], s[i][2]>> # <<s[j][1], s[j][2]>>}

UpdateLists == UNION {[1..k -> UpdateEdits] : k \in 0..MaxUpdates}

\* ------------------------------------------------------------------ state
Init ==
    /\ nodes = <<>>
    /\ edges = <<>>
    /\ updates = <<>>
    /\ graph = <<>>
    /\ distance_tables = <<>>
    /\ routing_tables = <<>>
    /\ step = 0
    /\ converged = FALSE
    /\ updates_applied = FALSE
    /\ pc = "main"
    /\ dt_out = <<>>
    /\ rt_out = <<>>

\* main (lines 312-322): read_topology on the three line groups of standard
\* input, then the prologue of distance_vector (lines 192-199).
Main ==
    /\ pc = "main"
    /\ nodes' = NodeList
    /\ edges' \in EdgeLists
    /\ updates' \in UpdateLists
    /\ graph' = read_topology(EmptyGraph(nodes'), edges')
    /\ IF GraphIsEmpty(graph') \/ nodes' = <<>>
       THEN /\ pc' = "exit"
            /\ UNCHANGED <<distance_tables, routing_tables, step, dt_out>>
       ELSE /\ distance_tables' = initialise_distance(nodes', graph')
            /\ routing_tables' = initialise_routing(nodes', graph')
            /\ dt_out' = print_distance_tables(0, distance_tables', nodes')
            /\ step' = 1
            /\ pc' = "loop"
    /\ UNCHANGED <<converged, updates_applied, rt_out>>

\* One iteration of the while loop that does not enter the update branch
\* (lines 201-253, 256, 304-307), with the final report (lines 309-310) when
\* the loop is left.
Sweep ==
    /\ pc = "loop"
    /\ step < MaxSteps
    /\ distance_tables' = SweepDistances(graph, distance_tables, nodes)
    /\ routing_tables' = SweepRouting(graph, distance_tables, routing_tables, nodes)
    /\ converged' = SweepConverged(graph, distance_tables, routing_tables, nodes)
    /\ dt_out' = print_distance_tables(step, distance_tables', nodes)
    /\ IF converged' /\ updates # <<>> /\ ~updates_applied
       THEN pc' = "apply" /\ step' = step /\ rt_out' = rt_out
       ELSE IF converged'
            THEN /\ pc' = "done"
                 /\ step' = step
                 /\ rt_out' = Append(rt_out,
                        print_routing_tables(routing_tables', distance_tables', nodes))
            ELSE pc' = "loop" /\ step' = step + 1 /\ rt_out' = rt_out
    /\ UNCHANGED <<nodes, edges, updates, graph, updates_applied>>

\* Lines 257-264: report the converged routes, apply the batch.
ApplyUpdates ==
    /\ pc = "apply"
    /\ rt_out' = Append(rt_out,
                        print_routing_tables(routing_tables, distance_tables, nodes))
    /\ LET r == update_distance_tables(graph, nodes, updates, distance_tables)
       IN  /\ graph' = r.g
           /\ distance_tables' = r.dt
    /\ updates_applied' = TRUE
    /\ converged' = FALSE
    /\ dt_out' = print_distance_tables(step + 1, distance_tables', nodes)
    /\ step' = step + 2
    /\ pc' = "resweep"
    /\ UNCHANGED <<nodes, edges, updates, routing_tables>>

\* Lines 266-302: the sweep run immediately after the batch; the loop flag
\* was cleared on line 261 and this sweep can only clear it again.
Resweep ==
    /\ pc = "resweep"
    /\ distance_tables' = SweepDistances(graph, distance_tables, nodes)
    /\ routing_tables' = SweepRouting(graph, distance_tables, routing_tables, nodes)
    /\ dt_out' = print_distance_tables(step, distance_tables', nodes)
    /\ step' = step + 1
    /\ pc' = "loop"
    /\ UNCHANGED <<nodes, edges, updates, graph, converged, updates_applied, rt_out>>

Next == Main \/ Sweep \/ ApplyUpdates \/ Resweep

Spec == Init /\ [][Next]_vars

\* A direct call of apply_updates(graph, nodes, updates, distance_tables)
\* (lines 41-54) on the state in which the batch is due: the graph is edited,
\* nothing is reported, the tables and the round number stay, None is
\* returned.  distance_vector never makes this call, so the step belongs to
\* no run of the program from main; it is a step of SpecApi only.
CallApplyUpdates ==
    /\ pc = "apply"
    /\ graph' = apply_updates(graph, updates)
    /\ pc' = "called"
    /\ UNCHANGED <<nodes, edges, updates, distance_tables, routing_tables,
                   step, converged, updates_applied, dt_out, rt_out>>

\* The runs of the program together with direct calls of apply_updates.
NextApi == Main \/ Sweep \/ ApplyUpdates \/ Resweep \/ CallApplyUpdates

SpecApi == Init /\ [][NextApi]_vars

TypeOK ==
    /\ pc \in {"main", "exit", "loop", "apply", "resweep", "done", "called"}
    /\ step \in 0..(MaxSteps + 2)
    /\ converged \in BOOLEAN
    /\ updates_applied \in BOOLEAN

\* ------------------------------------------------------------- reference
\* Independent reference: all-pairs shortest paths by Floyd-Warshall.  The
\* distance matrix is a tuple of rows, indexed by position in the node list.
Pos(ns, x) == CHOOSE i \in 1..Len(ns) : ns[i] = x

RECURSIVE MatrixRow(_, _, _, _)
MatrixRow(g, ns, i, j) ==
    IF j = 0 THEN <<>>
    ELSE Append(MatrixRow(g, ns, i, j - 1),
                IF i = j THEN 0 ELSE GraphCost(g, ns[i], ns[j]))

RECURSIVE Matrix(_, _, _)
Matrix(g, ns, i) ==
    IF i = 0 THEN <<>>
    ELSE Append(Matrix(g, ns, i - 1), MatrixRow(g, ns, i, Len(ns)))

RECURSIVE RelaxRow(_, _, _, _)
RelaxRow(d, k, i, j) ==
    IF j = 0 THEN <<>>
    ELSE LET via == Plus(d[i][k], d[k][j])
         IN  Append(RelaxRow(d, k, i, j - 1),
                    IF via < d[i][j] THEN via ELSE d[i][j])

RECURSIVE Relax(_, _, _)
Relax(d, k, i) ==
    IF i = 0 THEN <<>>
    ELSE Append(Relax(d, k, i - 1), RelaxRow(d, k, i, Len(d)))

RECURSIVE FloydWarshall(_, _)
FloydWarshall(d, k) ==
    IF k > Len(d) THEN d ELSE FloydWarshall(Relax(d, k, Len(d)), k + 1)

\* Shortest distance between routers a and b over the links of g.
ShortestPath(g, ns, a, b) ==
    FloydWarshall(Matrix(g, ns, Len(ns)), 1)[Pos(ns, a)][Pos(ns, b)]

\* The selected cost of router n for destination d: the minimum over n's
\* neighbour rows.
SelectedCost(dt, n, d) == MinOf({dt[n][k][d] : k \in DOMAIN dt[n] \ {n}})

InitialGraph == read_topology(EmptyGraph(nodes), edges)

Static == updates = <<>>

Stopped == pc = "done"

AllPairs == {<<n, d>> \in SetOf(nodes) \X SetOf(nodes) : n # d}

SelectedIsShortest ==
    \A p \in AllPairs :
        SelectedCost(distance_tables, p[1], p[2]) = ShortestPath(graph, nodes, p[1], p[2])

\* ------------------------------------------------------------------ C1
\* C1: on a static topology with positive link costs, when distance_vector
\* stops, every router's selected cost for every other destination equals
\* the Floyd-Warshall shortest-path distance, and is unreachable exactly
\* when no path exists.
C1_StaticShortestPaths == (Stopped /\ Static) => SelectedIsShortest

\* A stopped static run holding a multi-hop route and an unreachable pair.
C1_Witness ==
    /\ pc = "done" /\ Static
    /\ \E p \in AllPairs :
          /\ ~InGraph(graph, p[1], p[2])
          /\ SelectedCost(distance_tables, p[1], p[2]) # INF
    /\ SetOf(edges) = {<<"A", "B", 1>>, <<"B", "C", 1>>}

\* ------------------------------------------- the topology the input asks for
\* The cost of link {a, b} after a list of edit lines, read off the lines
\* themselves: the last line naming the pair decides; -1 deletes.
RECURSIVE LinkAfter(_, _, _, _, _)
LinkAfter(lines, a, b, deletes, acc) ==
    IF lines = <<>> THEN acc
    ELSE LET e == Head(lines)
             hit == {e[1], e[2]} = {a, b}
         IN  LinkAfter(Tail(lines), a, b, deletes,
                       IF ~hit THEN acc
                       ELSE IF e[3] # -1 THEN e[3]
                       ELSE IF deletes THEN INF ELSE acc)

InitialCost(a, b) == LinkAfter(edges, a, b, FALSE, INF)

UpdatedCost(a, b) == LinkAfter(updates, a, b, TRUE, InitialCost(a, b))

\* The same two topologies as adjacency dicts, for the reference.
TopologyOf(cost(_, _)) ==
    [n \in SetOf(nodes) |->
        SelectSeq([i \in 1..Len(nodes) |-> <<nodes[i], cost(n, nodes[i])>>],
                  LAMBDA e : e[1] # n /\ e[2] # INF)]

InitialTopology == TopologyOf(InitialCost)

UpdatedTopology == TopologyOf(UpdatedCost)

InitialPath(a, b) == ShortestPath(InitialTopology, nodes, a, b)

UpdatedPath(a, b) == ShortestPath(UpdatedTopology, nodes, a, b)

\* Links of the initial topology that the batch has taken away.
RemovedPairs ==
    {p \in AllPairs : InitialCost(p[1], p[2]) # INF /\ UpdatedCost(p[1], p[2]) = INF}

\* Pairs that had a path before the batch and have none after it.
CutPairs ==
    {p \in AllPairs : InitialPath(p[1], p[2]) # INF /\ UpdatedPath(p[1], p[2]) = INF}

HasLine(out, n, d) == \E i \in 1..Len(out[n]) : out[n][i][1] = d

LastOut == rt_out[Len(rt_out)]

\* ------------------------------------------------------------------ C2
\* C2: after the batch removes a link so that some destination d has no
\* remaining path from router n, the engine reaches convergence with n's
\* selected cost to d unreachable and d absent from n's final routing table
\* (for A-B-C with B-C removed: C absent from the tables of A and B): the
\* loop is not still running at MaxSteps rounds, and the final output omits d.
C2_CutOffConverges ==
    (updates_applied /\ CutPairs # {}) =>
        /\ pc = "loop" => step < MaxSteps
        /\ pc = "done" =>
              \A p \in CutPairs :
                  /\ SelectedCost(distance_tables, p[1], p[2]) = INF
                  /\ ~HasLine(LastOut, p[1], p[2])

\* ------------------------------------------------------------------ C3
\* C3: after the batch removes links whose endpoints all remain connected
\* by an alternate path, the engine converges (the loop stops and the final
\* routing table is emitted) with every selected cost equal to the
\* shortest-path distance of the new topology: the loop is not still running
\* at MaxSteps rounds, and the final selected costs are the shortest ones.
C3_AlternatePathConverges ==
    (/\ updates_applied
     /\ RemovedPairs # {}
     /\ \A p \in RemovedPairs : UpdatedPath(p[1], p[2]) # INF) =>
        /\ pc = "loop" => step < MaxSteps
        /\ pc = "done" =>
              \A p \in AllPairs :
                  SelectedCost(distance_tables, p[1], p[2]) = UpdatedPath(p[1], p[2])

\* ------------------------------------------------------------------ C4
LineThenShortcut ==
    /\ SetOf(edges) = {<<"A", "B", 1>>, <<"B", "C", 1>>}
    /\ updates = <<(<<"A", "C", 1>>)>>

PositiveBatch ==
    /\ updates # <<>>
    /\ \A i \in 1..Len(updates) : updates[i][3] > 0

\* C4: after a batch that only adds links or sets link costs, the engine
\* stops with every selected cost equal to the shortest-path distance of the
\* new topology; for A-B-C (costs 1, 1) with update A-C 1 the final state
\* has RoutingTable[A][C] = C at cost 1 and RoutingTable[C][A] = A at cost 1.
C4_AddReconverges ==
    (Stopped /\ updates_applied /\ PositiveBatch) =>
        /\ \A p \in AllPairs :
              SelectedCost(distance_tables, p[1], p[2]) = UpdatedPath(p[1], p[2])
        /\ LineThenShortcut =>
              /\ routing_tables["A"]["C"] = "C"
              /\ SelectedCost(distance_tables, "A", "C") = 1
              /\ routing_tables["C"]["A"] = "A"
              /\ SelectedCost(distance_tables, "C", "A") = 1

C4_Witness ==
    /\ pc = "done" /\ updates_applied /\ LineThenShortcut
    /\ LastOut["A"] = <<(<<"B", "B", 1>>), (<<"C", "C", 1>>)>>

\* ------------------------------------------------------------------ C5
\* C5: for every well-formed input, update batches that remove links
\* included, distance_vector eventually stops (at a fixpoint or by reporting
\* non-convergence once a round bound is exceeded); it never loops forever:
\* the loop is never still running when the round counter reaches MaxSteps.
C5_AlwaysStops == pc = "loop" => step < MaxSteps

\* ------------------------------------------------------------------ C6
\* C6: on every well-formed static topology (no updates) the convergence
\* phase terminates: some sweep flags no change and the loop exits.  A sweep
\* numbered below the number of routers flags no change, so the loop is
\* never at its head with a round number that large.
C6_StaticTerminates == (pc = "loop" /\ Static) => step < Len(nodes)

C6_Witness == pc = "done" /\ Static /\ converged /\ step = 2

\* ------------------------------------------------------------------ C7
\* C7: whenever the engine has declared convergence, one more relaxation
\* sweep over the resulting tables and the same topology yields identical
\* distance and routing tables and flags no change.
C7_Idempotent ==
    (pc \in {"apply", "done"}) =>
        /\ SweepDistances(graph, distance_tables, nodes) = distance_tables
        /\ SweepRouting(graph, distance_tables, routing_tables, nodes) = routing_tables
        /\ SweepConverged(graph, distance_tables, routing_tables, nodes)

\* Convergence declared a second time, after a batch that removed a link
\* whose endpoints stay connected.
C7_Witness ==
    /\ pc = "done" /\ updates_applied
    /\ \E p \in RemovedPairs : UpdatedPath(p[1], p[2]) # INF

\* ------------------------------------------------------------------ C8
Connected == \A p \in AllPairs : ShortestPath(graph, nodes, p[1], p[2]) # INF

\* C8: at convergence on a connected static topology the selected cost from
\* n to d equals the selected cost from d to n, for all routers n and d.
C8_Symmetry ==
    (Stopped /\ Static /\ Connected) =>
        \A p \in AllPairs :
            SelectedCost(distance_tables, p[1], p[2])
                = SelectedCost(distance_tables, p[2], p[1])

\* A connected line with unequal link costs, converged.
C8_Witness ==
    /\ pc = "done" /\ Static /\ Connected
    /\ \E p \in AllPairs :
          ~InGraph(graph, p[1], p[2]) /\ SelectedCost(distance_tables, p[1], p[2]) = 3

\* ------------------------------------------------------------------ C9
\* C9: after convergence, router n's own row entry DistanceTable[n][n][d]
\* equals n's best estimate for d and does not exceed DistanceTable[n][k][d]
\* for any other row k.
C9_OwnRowIsBest ==
    Stopped =>
        \A p \in AllPairs :
            /\ distance_tables[p[1]][p[1]][p[2]]
                   = SelectedCost(distance_tables, p[1], p[2])
            /\ \A k \in SetOf(nodes) \ {p[1]} :
                   distance_tables[p[1]][p[1]][p[2]] <= distance_tables[p[1]][k][p[2]]

\* ------------------------------------------------------------------ C10
\* A printed table agrees with a topology: a line for d exactly when d is
\* another router within finite distance, carrying that distance and a next
\* hop that starts a shortest path.
OutputMatches(out, g) ==
    \A n \in SetOf(nodes) :
        /\ \A d \in SetOf(nodes) :
              HasLine(out, n, d) <=> (d # n /\ ShortestPath(g, nodes, n, d) # INF)
        /\ \A i \in 1..Len(out[n]) :
              LET d == out[n][i][1]
                  hop == out[n][i][2]
              IN  /\ out[n][i][3] = ShortestPath(g, nodes, n, d)
                  /\ hop \in SetOf(nodes) \ {n}
                  /\ InGraph(g, n, hop)
                  /\ Plus(GraphCost(g, n, hop), ShortestPath(g, nodes, hop, d))
                        = ShortestPath(g, nodes, n, d)

\* C10: every emitted routing table of router R, before and after updates,
\* has a line for d iff d # R and d is reachable from R at finite cost in
\* the topology current at that time; the line carries the selected next
\* hop and selected cost; unreachable destinations are omitted.
C10_RoutingOutput ==
    /\ Len(rt_out) >= 1 => OutputMatches(rt_out[1], InitialTopology)
    /\ pc = "done" =>
          /\ updates_applied => OutputMatches(LastOut, UpdatedTopology)
          /\ ~updates_applied => OutputMatches(LastOut, InitialTopology)
          /\ \A n \in SetOf(nodes) : \A i \in 1..Len(LastOut[n]) :
                /\ LastOut[n][i][2] = routing_tables[n][LastOut[n][i][1]]
                /\ LastOut[n][i][3] = SelectedCost(distance_tables, n, LastOut[n][i][1])

\* ------------------------------------------------- unvalidated cost input
\* read_topology converts the cost token with int() and tests it only
\* against -1, so any integer can stand on an edge or update line.
RawCosts == {-2, 0, 1}

RawEdits == {<<p[1], p[2], c>> : p \in LinkPairs, c \in RawCosts}

RawEdgeLists ==
    {s \in UNION {[1..k -> RawEdits] : k \in 0..Cardinality(LinkPairs)} :
        \A i, j \in 1..Len(s) : i # j => <<s[i][1], s[i][2]>> # <<s[j][1], s[j][2]>>}

RawUpdateLists ==
    UNION {[1..k -> {<<p[1], p[2], c>> : p \in LinkPairs, c \in RawCosts \cup {-1}}] :
              k \in 0..1}

\* main (lines 312-322) on input whose cost tokens are arbitrary integers.
MainRaw ==
    /\ pc = "main"
    /\ nodes' = NodeList
    /\ edges' \in RawEdgeLists
    /\ updates' \in RawUpdateLists
    /\ graph' = read_topology(EmptyGraph(nodes'), edges')
    /\ IF GraphIsEmpty(graph') \/ nodes' = <<>>
       THEN /\ pc' = "exit"
            /\ UNCHANGED <<distance_tables, routing_tables, step, dt_out>>
       ELSE /\ distance_tables' = initialise_distance(nodes', graph')
            /\ routing_tables' = initialise_routing(nodes', graph')
            /\ dt_out' = print_distance_tables(0, distance_tables', nodes')
            /\ step' = 1
            /\ pc' = "loop"
    /\ UNCHANGED <<converged, updates_applied, rt_out>>

NextRaw == MainRaw \/ Sweep \/ ApplyUpdates \/ Resweep

SpecRaw == Init /\ [][NextRaw]_vars

\* ------------------------------------------------------------------ C11
ValidCost(c) == c > 0 \/ c = -1

InvalidLine ==
    \/ \E i \in 1..Len(edges) : ~ValidCost(edges[i][3])
    \/ \E i \in 1..Len(updates) : ~ValidCost(updates[i][3])

\* C11: a link edit (initial or update) whose cost is 0 or less than -1 is
\* rejected with an invalid-cost error and never becomes a link of the
\* topology: every link of the graph has a positive cost, and input holding
\* such a line does not get as far as the simulation.
C11_InvalidCostRejected ==
    /\ \A a, b \in SetOf(nodes) : InGraph(graph, a, b) => GraphCost(graph, a, b) > 0
    /\ InvalidLine => pc \in {"main", "exit"}

\* ------------------------------------------------------------------ C12
\* C12: in every reported distance table of router R, the cell in the row
\* labelled with neighbour k and the column labelled with destination d
\* shows DistanceTable[R][k][d], with rows and columns ranging over all
\* routers other than R.
C12_DistanceOutput ==
    dt_out # <<>> =>
        \A R \in SetOf(nodes) :
            /\ DOMAIN dt_out.tables[R] = SetOf(nodes) \ {R}
            /\ \A k \in SetOf(nodes) \ {R} :
                  /\ DOMAIN dt_out.tables[R][k] = SetOf(nodes) \ {R}
                  /\ \A d \in SetOf(nodes) \ {R} :
                        dt_out.tables[R][k][d] = distance_tables[R][k][d]

\* ------------------------------------------------------------------ C13
\* Minimum of the entries for d over all of k's rows, k's own row included.
AllRowsMin(dt, k, d) == MinOf({dt[k][m][d] : m \in DOMAIN dt[k]})

\* A relaxation round writes cost(n,k) + best(k,d) into every multi-hop
\* entry of every current neighbour row, best read from the previous table.
RelaxedWith(best(_, _, _)) ==
    pc \in {"loop", "resweep"} =>
        \A n \in SetOf(nodes) : \A k \in SetOf(nodes) \ {n} :
            \A d \in SetOf(nodes) \ {n, k} :
                InGraph(graph, n, k) =>
                    distance_tables'[n][k][d]
                        = Plus(GraphCost(graph, n, k), best(distance_tables, k, d))

\* C13: in every relaxation round, before and after the update batch, the
\* new DistanceTable[n][k][d] of every current neighbour k and destination d
\* outside {n, k} equals cost(n,k) + best(k,d), best(k,d) being the minimum
\* of the previous DistanceTable[k][m][d] over all rows m of k, k's own row
\* included, and unreachable when best(k,d) is unreachable.
C13_RelaxAllRows == [][RelaxedWith(AllRowsMin)]_vars

\* ------------------------------------------------------ four-router input
\* Four routers, at most WideLinks initial links of cost 1 and a batch of at
\* most WideBatch edits, each deleting one of the links A-B and B-D or
\* setting its cost to 1.
NodeList4 == <<"A", "B", "C", "D">>

LinkPairs4 == {<<"A", "B">>, <<"A", "C">>, <<"A", "D">>,
               <<"B", "C">>, <<"B", "D">>, <<"C", "D">>}

WideLinks == 2

WideBatch == 2

WideEdgeLists ==
    {s \in UNION {[1..k -> {<<p[1], p[2], 1>> : p \in LinkPairs4}] : k \in 0..WideLinks} :
        \A i, j \in 1..Len(s) : i # j => <<s[i][1], s[i][2]>> # <<s[j][1], s[j][2]>>}

WideUpdatePairs == {<<"A", "B">>, <<"B", "D">>}

WideUpdateLists ==
    UNION {[1..k -> {<<p[1], p[2], c>> : p \in WideUpdatePairs, c \in {-1, 1}}] :
              k \in 0..WideBatch}

\* main (lines 312-322) on four-router input.
MainWide ==
    /\ pc = "main"
    /\ nodes' = NodeList4
    /\ edges' \in WideEdgeLists
    /\ updates' \in WideUpdateLists
    /\ graph' = read_topology(EmptyGraph(nodes'), edges')
    /\ IF GraphIsEmpty(graph') \/ nodes' = <<>>
       THEN /\ pc' = "exit"
            /\ UNCHANGED <<distance_tables, routing_tables, step, dt_out>>
       ELSE /\ distance_tables' = initialise_distance(nodes', graph')
            /\ routing_tables' = initialise_routing(nodes', graph')
            /\ dt_out' = print_distance_tables(0, distance_tables', nodes')
            /\ step' = 1
            /\ pc' = "loop"
    /\ UNCHANGED <<converged, updates_applied, rt_out>>

NextWide == MainWide \/ Sweep \/ ApplyUpdates \/ Resweep

SpecWide == Init /\ [][NextWide]_vars

\* ------------------------------------------------------------------ C14
\* The recomputation of lines 103-122 with every entry computed from the
\* table as it stood when the recomputation began.
RecomputeFromSnapshot(g, dt, ns) ==
    [node \in SetOf(ns) |->
        [neighbour \in SetOf(ns) |->
            [dest \in SetOf(ns) \ {node} |->
                IF neighbour # node /\ dest # neighbour
                THEN RecomputeEntry(g, dt, ns, node, neighbour, dest)
                ELSE dt[node][neighbour][dest]]]]

\* The table the batch's link edits leave for the recomputation.
EditedTables ==
    ApplyEdits(graph, distance_tables, removed_links(graph, updates, <<>>),
               nodes, updates)

\* C14: every step that rewrites the DistanceTable (each relaxation sweep,
\* and the recomputation performed when updates are applied) reads only the
\* table as it stood at the start of that step and commits all new values
\* together (so the result does not depend on the order in which routers
\* are iterated): the table after the step is the one computed entry by
\* entry from the table before it.
C14_SnapshotSteps ==
    [][/\ pc \in {"loop", "resweep"} =>
             distance_tables' = SweepDistances(graph, distance_tables, nodes)
       /\ pc = "apply" =>
             distance_tables'
                 = RecomputeFromSnapshot(EditedTables.g, EditedTables.dt, nodes)]_vars

\* ------------------------------------------------------------------ C15
\* The state distance_vector is in when the table of t=0 has been reported.
AtRoundZero == pc = "loop" /\ step = 1

\* C15: at t=0, for every router n and every direct neighbour k of n,
\* DistanceTable[n][k][k] = cost(n,k) and DistanceTable[n][n][k] = cost(n,k);
\* every other DistanceTable entry is unreachable; RoutingTable[n][k] = k for
\* each direct neighbour and RoutingTable[n][d] is unset for every other d.
C15_InitialTables ==
    AtRoundZero =>
        \A n \in SetOf(nodes) : \A d \in SetOf(nodes) \ {n} :
            /\ \A k \in SetOf(nodes) :
                  distance_tables[n][k][d]
                      = IF k \in {n, d} THEN InitialCost(n, d) ELSE INF
            /\ routing_tables[n][d]
                  = IF InitialCost(n, d) # INF THEN d ELSE NONE

\* Round zero of a topology with a link of cost 2 and a pair without a link.
C15_Witness ==
    /\ AtRoundZero
    /\ \E p \in AllPairs : distance_tables[p[1]][p[1]][p[2]] = 2
    /\ \E p \in AllPairs : routing_tables[p[1]][p[2]] = NONE

\* ------------------------------------------------------------------ C16
\* A round has ended: its table is reported and the loop is at its head,
\* about to apply the batch, or left.
RoundEnded == pc \in {"apply", "done"} \/ (pc = "loop" /\ step >= 2)

\* C16: at the end of every round, before and after updates, for every
\* router n and destination d # n: if some neighbour row has a finite
\* DistanceTable[n][k][d] then RoutingTable[n][d] is a neighbour attaining
\* the minimum of those entries, and if no neighbour row has a finite entry
\* for d then RoutingTable[n][d] is none.
C16_RoutingIsArgmin ==
    RoundEnded =>
        \A p \in AllPairs :
            LET n == p[1]
                d == p[2]
                m == SelectedCost(distance_tables, n, d)
            IN  IF m # INF
                THEN /\ routing_tables[n][d] \in SetOf(nodes) \ {n}
                     /\ distance_tables[n][routing_tables[n][d]][d] = m
                ELSE routing_tables[n][d] = NONE

\* ------------------------------------------------------------------ C17
\* A round replaces a selected next hop only by a strictly cheaper one.
StableRound ==
    pc \in {"loop", "resweep"} =>
        \A p \in AllPairs :
            LET n == p[1]
                d == p[2]
                k == routing_tables[n][d]
                k2 == routing_tables'[n][d]
            IN  (k # NONE /\ k2 # NONE /\ k2 # k) =>
                    distance_tables'[n][k2][d] < distance_tables'[n][k][d]

\* C17: tie-break stability: between two consecutive rounds
\* RoutingTable[n][d] changes from an already-selected next hop k to a
\* different neighbour k2 only if the new cost through k2 is strictly lower
\* than the new cost through k; an equal-cost alternative never replaces the
\* selected next hop.
C17_TieBreakStable == [][StableRound]_vars

\* ------------------------------------------------------------------ C18
\* Applying the batch leaves both tables as they were at convergence.
BatchKeepsTables ==
    pc = "apply" =>
        /\ distance_tables' = distance_tables
        /\ routing_tables' = routing_tables

\* C18: applying the update batch mutates only the topology: no
\* DistanceTable entry is set to unreachable or otherwise rewritten by the
\* act of applying edits, so the DistanceTable and RoutingTable at the start
\* of the first post-update relaxation sweep equal those at the pre-update
\* convergence.
C18_BatchOnlyEditsTopology == [][BatchKeepsTables]_vars

\* ------------------------------------------------------------------ C19
\* Some pair's selected cost or selected next hop differs across the step.
SelectionDiffers ==
    \E p \in AllPairs :
        \/ SelectedCost(distance_tables', p[1], p[2])
               # SelectedCost(distance_tables, p[1], p[2])
        \/ routing_tables'[p[1]][p[2]] # routing_tables[p[1]][p[2]]

\* A sweep of the loop is flagged exactly when a selection differs, and the
\* loop goes round again exactly when the sweep is flagged.
FlagMatchesChange ==
    pc = "loop" =>
        /\ (~converged') <=> SelectionDiffers
        /\ (pc' = "loop") <=> ~converged'

\* C19: a relaxation sweep is flagged as changed if and only if some (node,
\* destination) pair's selected cost (minimum over its neighbour rows) or
\* selected next hop differs between the table before the sweep and the
\* table after it, a change from a finite cost to unreachable included; the
\* engine stops exactly at the first sweep that is not flagged.
C19_FlagIffChanged == [][FlagMatchesChange]_vars

\* ------------------------------------------------------------------ C20
\* The graph holds exactly the links the input asks for after its batch.
GraphIsUpdated(g) ==
    \A a \in SetOf(nodes) : \A b \in SetOf(nodes) \ {a} :
        GraphCost(g, a, b) = UpdatedCost(a, b)

\* One step of the run handles the batch as the claim says.
BatchDiscipline ==
    /\ (pc # "main" /\ graph' # graph) =>
          /\ pc = "apply" /\ ~updates_applied
          /\ graph = InitialGraph
          /\ SweepConverged(graph, distance_tables, routing_tables, nodes)
    /\ pc = "apply" =>
          /\ ~updates_applied /\ updates_applied'
          /\ GraphIsUpdated(graph')
          /\ routing_tables' = routing_tables
          /\ pc' = "resweep"
    /\ updates_applied => updates_applied' /\ pc' # "apply"

\* C20: the topology is not mutated before the engine first reaches a
\* fixpoint on the initial topology; the whole update batch is then applied
\* exactly once, in list order and completely before the next relaxation
\* sweep, and after that the engine is re-run without calling the table
\* initialisation again (the routing table of the fixpoint is carried over).
C20_BatchOnceInOrder == [][BatchDiscipline]_vars

\* A batch of two edits to the same link with different outcomes has just
\* been applied to tables that hold a multi-hop route.
C20_Witness ==
    /\ pc = "resweep" /\ updates_applied
    /\ Len(updates) = 2
    /\ {updates[1][1], updates[1][2]} = {updates[2][1], updates[2][2]}
    /\ updates[1][3] # updates[2][3]
    /\ InitialCost(updates[1][1], updates[1][2]) # INF
    /\ \E p \in AllPairs : routing_tables[p[1]][p[2]] \notin {p[2], NONE}

====
